---- MODULE Spec2Model ----
(***************************************************************************)
(* Learning companion: LearningAgent (learning_agent.py) and the notebook  *)
(* helpers explain / experiments / teach (notebook_helper.py).             *)
(*                                                                         *)
(* Text is a sequence of one-character strings.  A Python list is a        *)
(* sequence whose Python index i is position i + 1.  JSON objects are      *)
(* records whose DOMAIN is the set of keys present.  The fixed wording of  *)
(* a prompt template is one token per stretch of literal text; the         *)
(* interpolated parts are spelled out character by character.              *)
(***************************************************************************)
EXTENDS Integers, Sequences, FiniteSets, TLC

VARIABLES agent, pc, call, requests, lookups, outcome

vars == <<agent, pc, call, requests, lookups, outcome>>

(***************************************************************************)
(* Bounds of the model and constants of the program.                       *)
(***************************************************************************)
MaxCells == 5

MaxPad == 1

MaxOver == 1

MaxHist == 2

SnippetLen == 100

ContextCells == 3

MaxOrdinal == MaxHist + 2

(***************************************************************************)
(* Python built-ins used by the code.                                      *)
(***************************************************************************)
Whitespace == {" ", "\n", "\t"}

Min(a, b) == IF a <= b THEN a ELSE b

Max(a, b) == IF a >= b THEN a ELSE b

\* s[:n] for n >= 0
Prefix(s, n) == SubSeq(s, 1, Min(n, Len(s)))

\* s[-n:] for n > 0
Suffix(s, n) == SubSeq(s, Max(1, Len(s) - n + 1), Len(s))

RECURSIVE LStrip(_)
LStrip(s) ==
    IF s # <<>> /\ Head(s) \in Whitespace THEN LStrip(Tail(s)) ELSE s

RECURSIVE RStrip(_)
RStrip(s) ==
    IF s # <<>> /\ s[Len(s)] \in Whitespace
    THEN RStrip(SubSeq(s, 1, Len(s) - 1))
    ELSE s

\* str.strip()
Strip(s) == RStrip(LStrip(s))

\* ''.join(fragments)
RECURSIVE Join(_)
Join(frags) ==
    IF frags = <<>> THEN <<>> ELSE Head(frags) \o Join(Tail(frags))

DigitChar(d) == <<"0", "1", "2", "3", "4", "5", "6", "7", "8", "9">>[d + 1]

RECURSIVE Digits(_)
Digits(n) ==
    IF n < 10 THEN <<DigitChar(n)>>
    ELSE Digits(n \div 10) \o <<DigitChar(n % 10)>>

\* str(n) as an f-string interpolates an int
Str(n) == IF n < 0 THEN <<"-">> \o Digits(0 - n) ELSE Digits(n)

(***************************************************************************)
(* LearningAgent.parse_notebook                                            *)
(***************************************************************************)
\* ''.join(cell['source']) if isinstance(cell['source'], list) else cell['source']
SourceText(source) ==
    IF source.json = "array" THEN Join(source.v) ELSE source.v

\* cell.get('id', f'cell-{idx}')
CellId(cell, idx) ==
    IF "id" \in DOMAIN cell THEN cell.id
    ELSE <<"c", "e", "l", "l", "-">> \o Str(idx)

\* notebook['cells'], cell['cell_type'] and cell['source'] raise KeyError
\* when the key is missing
ParseRaises(notebook) ==
    \/ "cells" \notin DOMAIN notebook
    \/ \E i \in 1..Len(notebook.cells) :
          \/ "cell_type" \notin DOMAIN notebook.cells[i]
          \/ "source" \notin DOMAIN notebook.cells[i]

parse_notebook(notebook) ==
    [i \in 1..Len(notebook.cells) |->
        [index  |-> i - 1,
         type   |-> notebook.cells[i].cell_type,
         source |-> SourceText(notebook.cells[i].source),
         id     |-> CellId(notebook.cells[i], i - 1)]]

(***************************************************************************)
(* LearningAgent.explain_concept: the context and the prompt               *)
(***************************************************************************)
TruncationMarker == <<".", ".", ".">>

\* the position counted from one
PositionMarkerFromOne(index) ==
    <<"C", "e", "l", "l", " ">> \o Str(index + 1) \o <<":", " ">>

\* f"Cell {cell['index']}: "
PositionMarker(index) == <<"C", "e", "l", "l", " ">> \o Str(index) \o <<":", " ">>

\* f"{cell['source'][:100]}..."
Snippet(source) == Prefix(source, SnippetLen) \o TruncationMarker

\* only raw cells set aside
IsNotRaw(cell) == cell.type # "raw"

IsCode(cell) == cell.type = "code"

\* the slice left out
AllCells(context_cells) == context_cells

\* context_cells[-3:]
LastCells(context_cells) == Suffix(context_cells, ContextCells)

\* the cells the loop of explain_concept writes into the context, with the
\* snippet written for each
ContextWindow(context_cells) ==
    LET kept == SelectSeq(LastCells(context_cells), IsCode)
    IN  [i \in 1..Len(kept) |->
            [index |-> kept[i].index, snippet |-> Snippet(kept[i].source)]]

RECURSIVE ContextLines(_)
ContextLines(window) ==
    IF window = <<>> THEN <<>>
    ELSE PositionMarker(Head(window).index) \o Head(window).snippet
            \o <<"\n">> \o ContextLines(Tail(window))

\* context_cells is None or [] : context stays ""
ContextText(context_cells) ==
    IF context_cells = <<>> THEN <<>>
    ELSE <<"Previous cells executed:", "\n">>
            \o ContextLines(ContextWindow(context_cells))

ExplanationPrompt(cell_content, cell_index, context_cells) ==
    <<"<tutor-intro>">> \o ContextText(context_cells)
        \o <<"<current-cell>">> \o Str(cell_index)
        \o <<"<code-open>">> \o cell_content
        \o <<"<code-close>", "<explain-instructions>">>

\* the chat completion request explain_concept sends
ExplanationRequest(cell_content, cell_index, context_cells) ==
    [kind         |-> "explanation",
     cell_content |-> cell_content,
     cell_index   |-> cell_index,
     window       |-> ContextWindow(context_cells),
     prompt       |-> ExplanationPrompt(cell_content, cell_index, context_cells)]

(***************************************************************************)
(* LearningAgent.suggest_experiments                                       *)
(***************************************************************************)
ExperimentsPrompt(cell_content) ==
    <<"<experiment-intro>", "<code-open>">> \o cell_content
        \o <<"<code-close>", "<experiment-instructions>">>

ExperimentsRequest(cell_content, cell_index) ==
    [kind         |-> "experiments",
     cell_content |-> cell_content,
     cell_index   |-> cell_index,
     window       |-> <<>>,
     prompt       |-> ExperimentsPrompt(cell_content)]

Completion == <<"<completion>">>

(***************************************************************************)
(* LearningAgent.analyze_cell                                              *)
(***************************************************************************)
\* cell_index >= len(cells)
IndexOutOfRange(cell_index, cells) == cell_index >= Len(cells)

\* cells[cell_index] raises IndexError below -len(cells)
ItemRaises(cell_index, cells) == cell_index < 0 - Len(cells)

\* cells[cell_index]: a negative index counts from the end of the list
Item(cells, cell_index) ==
    IF cell_index >= 0 THEN cells[cell_index + 1]
    ELSE cells[Len(cells) + cell_index + 1]

\* cells[:cell_index] if cell_index > 0 else []
ContextCellsOf(cells, cell_index) ==
    IF cell_index > 0 THEN Prefix(cells, cell_index) ELSE <<>>

NoOutcome == [kind |-> "none"]

Raised(exc) == [kind |-> "raised", exc |-> exc]

analyze_cell(notebook, cell_index) ==
    /\ pc = "idle"
    /\ call' = [fn |-> "analyze_cell", notebook |-> notebook,
                cell_index |-> cell_index]
    /\ lookups' = {}
    /\ UNCHANGED agent
    /\ IF ParseRaises(notebook)
       THEN /\ outcome' = Raised("KeyError")
            /\ requests' = <<>>
            /\ pc' = "done"
       ELSE LET cells == parse_notebook(notebook)
            IN  IF IndexOutOfRange(cell_index, cells)
                THEN /\ outcome' = [kind |-> "error", cell_index |-> cell_index,
                                    cell_count |-> Len(cells)]
                     /\ requests' = <<>>
                     /\ pc' = "done"
                ELSE IF ItemRaises(cell_index, cells)
                THEN /\ outcome' = Raised("IndexError")
                     /\ requests' = <<>>
                     /\ pc' = "done"
                ELSE IF ~IsCode(Item(cells, cell_index))
                THEN /\ outcome' = [kind |-> "info", cell_index |-> cell_index]
                     /\ requests' = <<>>
                     /\ pc' = "done"
                ELSE /\ outcome' = NoOutcome
                     /\ requests' = <<ExplanationRequest(
                            Item(cells, cell_index).source, cell_index,
                            ContextCellsOf(cells, cell_index))>>
                     /\ pc' = "explain_concept"

(***************************************************************************)
(* notebook_helper: explain_this_cell, experiments_for_this_cell,          *)
(* teach_me_this_cell                                                      *)
(***************************************************************************)
\* the guard with < in place of <=
NoPreviousCellBelowOne(execution_count) ==
    execution_count = <<>> \/ execution_count[1] < 1

\* current_execution_count is None or current_execution_count <= 1;
\* None is <<>> and the count n is <<n>>
NoPreviousCell(execution_count) ==
    execution_count = <<>> \/ execution_count[1] <= 1

\* the try block: parsed history first when the attribute exists, the In
\* mapping otherwise; IndexError and KeyError give ""
PreviousCell(ipython, prev_execution) ==
    IF "input_hist_parsed" \in DOMAIN ipython.history_manager
    THEN IF prev_execution < Len(ipython.history_manager.input_hist_parsed)
         THEN ipython.history_manager.input_hist_parsed[prev_execution + 1]
         ELSE <<>>
    ELSE IF "In" \in DOMAIN ipython.user_ns
         THEN IF prev_execution \in DOMAIN ipython.user_ns.In
              THEN ipython.user_ns.In[prev_execution]
              ELSE <<>>
         ELSE <<>>

\* what the try block reads of the session
HistoryReads(ipython) ==
    IF "input_hist_parsed" \in DOMAIN ipython.history_manager
    THEN {"history_manager", "input_hist_parsed"}
    ELSE IF "In" \in DOMAIN ipython.user_ns
         THEN {"history_manager", "user_ns", "In"}
         ELSE {"history_manager", "user_ns"}

\* the guard without its strip() half
IsEmptyCellUnstripped(prev_cell) == prev_cell = <<>>

\* not prev_cell or not prev_cell.strip()
IsEmptyCell(prev_cell) == prev_cell = <<>> \/ Strip(prev_cell) = <<>>

Warning(msg) == [kind |-> "warning", msg |-> msg]

\* the part the three helpers share: get_agent(), the guard on the
\* execution count, the history lookup, the guard on the text, and the
\* first request.  LearningAgent() is taken to return: the constructor of
\* the client is not part of the source.
LiveCell(fn, ipython, first) ==
    /\ pc = "idle"
    /\ call' = [fn |-> fn, ipython |-> ipython]
    /\ agent' = "LearningAgent"
    /\ IF NoPreviousCell(ipython.execution_count)
       THEN /\ outcome' = Warning("no previous cell")
            /\ lookups' = {}
            /\ requests' = <<>>
            /\ pc' = "done"
       ELSE LET prev_execution == ipython.execution_count[1] - 1
                prev_cell == PreviousCell(ipython, prev_execution)
            IN  /\ lookups' = HistoryReads(ipython)
                /\ IF IsEmptyCell(prev_cell)
                   THEN /\ outcome' = Warning("previous cell empty")
                        /\ requests' = <<>>
                        /\ pc' = "done"
                   ELSE /\ outcome' = NoOutcome
                        /\ requests' =
                             IF first = "explain_concept"
                             THEN <<ExplanationRequest(Strip(prev_cell),
                                                       prev_execution, <<>>)>>
                             ELSE <<ExperimentsRequest(Strip(prev_cell),
                                                       prev_execution)>>
                        /\ pc' = first

explain_this_cell(ipython) ==
    LiveCell("explain_this_cell", ipython, "explain_concept")

experiments_for_this_cell(ipython) ==
    LiveCell("experiments_for_this_cell", ipython, "suggest_experiments")

teach_me_this_cell(ipython) ==
    LiveCell("teach_me_this_cell", ipython, "explain_concept")

(***************************************************************************)
(* The chat completion call returns or raises; the caller goes on.         *)
(***************************************************************************)
\* explain_concept returned inside analyze_cell or teach_me_this_cell:
\* suggest_experiments is called with the same code
ExplanationReturnsThenExperiments ==
    /\ pc = "explain_concept"
    /\ call.fn \in {"analyze_cell", "teach_me_this_cell"}
    /\ requests' = Append(requests,
            ExperimentsRequest(requests[1].cell_content, requests[1].cell_index))
    /\ pc' = "suggest_experiments"
    /\ UNCHANGED <<agent, call, lookups, outcome>>

\* explain_concept returned inside explain_this_cell: it is displayed
ExplanationReturnsLast ==
    /\ pc = "explain_concept"
    /\ call.fn = "explain_this_cell"
    /\ outcome' = [kind |-> "displayed", explanation |-> Completion]
    /\ pc' = "done"
    /\ UNCHANGED <<agent, call, lookups, requests>>

\* suggest_experiments returned: analyze_cell returns the result record,
\* the helpers display the text
ExperimentsReturns ==
    /\ pc = "suggest_experiments"
    /\ outcome' =
         IF call.fn = "analyze_cell"
         THEN [kind |-> "result",
               cell_index |-> call.cell_index,
               cell_content |-> requests[1].cell_content,
               explanation |-> Completion,
               experiments |-> Completion]
         ELSE IF call.fn = "teach_me_this_cell"
         THEN [kind |-> "displayed", explanation |-> Completion,
               experiments |-> Completion]
         ELSE [kind |-> "displayed", experiments |-> Completion]
    /\ pc' = "done"
    /\ UNCHANGED <<agent, call, lookups, requests>>

\* chat.completions.create raises: nothing between it and the caller of
\* the entry point catches
CompletionRaises ==
    /\ pc \in {"explain_concept", "suggest_experiments"}
    /\ outcome' = Raised("APIError")
    /\ pc' = "done"
    /\ UNCHANGED <<agent, call, lookups, requests>>

(***************************************************************************)
(* Inputs                                                                  *)
(***************************************************************************)
Spaces(n) == [i \in 1..n |-> " "]

Newlines(n) == [i \in 1..n |-> "\n"]

Bodies == {<<>>, <<"x", " ", "1">>}

ShortTexts == {Spaces(k) \o b \o Newlines(k) : k \in 0..MaxPad, b \in Bodies}

LongTexts ==
    {[i \in 1..(SnippetLen + d) |-> IF i <= SnippetLen THEN "x" ELSE "y"] :
        d \in 0..MaxOver}

JsonString(text) == [json |-> "string", v |-> text]

\* the text as a list of two fragments
JsonArray(text) ==
    [json |-> "array",
     v |-> <<Prefix(text, Len(text) \div 2),
             SubSeq(text, Len(text) \div 2 + 1, Len(text))>>]

Sources ==
    {JsonString(t) : t \in ShortTexts \cup LongTexts}
        \cup {JsonArray(t) : t \in ShortTexts \cup LongTexts}

PlainCells ==
    {[cell_type |-> k, source |-> JsonString(<<"x">>)] :
        k \in {"code", "markdown"}}

OtherCells ==
    {[cell_type |-> k, source |-> s] : k \in {"code", "markdown"}, s \in Sources}
        \cup {[cell_type |-> "raw", source |-> JsonString(<<"x">>)],
              [cell_type |-> "code", source |-> JsonString(<<"x">>),
               id |-> <<"a">>],
              [cell_type |-> "code"],
              [source |-> JsonString(<<"x">>)]}

PlainLists == UNION {[1..n -> PlainCells] : n \in 0..MaxCells}

\* lists of plain cells, and the same with one cell replaced
CellLists ==
    PlainLists
        \cup UNION {{[p EXCEPT ![i] = c] : i \in DOMAIN p, c \in OtherCells} :
                        p \in PlainLists}

Notebooks == {[cells |-> cs] : cs \in CellLists} \cup {[metadata |-> <<>>]}

CellCount(notebook) ==
    IF "cells" \in DOMAIN notebook THEN Len(notebook.cells) ELSE 0

CellIndexes(notebook) ==
    (0 - CellCount(notebook) - 1)..(CellCount(notebook) + 1)

\* input_hist_parsed: position 0 holds "", then one entry per ordinal
ParsedHistories ==
    {<<>>} \cup UNION {{<<<<>>>> \o h : h \in [1..n -> ShortTexts]} :
                            n \in 0..MaxHist}

InMappings == UNION {[S -> ShortTexts] : S \in SUBSET (1..MaxHist)}

FullIn == [k \in 1..MaxHist |-> <<"x", " ", "1">>]

HistorySources ==
    {[history_manager |-> [input_hist_parsed |-> h], user_ns |-> u] :
        h \in ParsedHistories, u \in {[other |-> 0], [In |-> FullIn]}}
      \cup {[history_manager |-> [other |-> 0], user_ns |-> [In |-> m]] :
                m \in InMappings}
      \cup {[history_manager |-> [other |-> 0], user_ns |-> [other |-> 0]]}

ExecutionCounts == {<<>>} \cup {<<n>> : n \in 0..MaxOrdinal}

Sessions ==
    {[execution_count |-> n, history_manager |-> s.history_manager,
      user_ns |-> s.user_ns] : n \in ExecutionCounts, s \in HistorySources}

(***************************************************************************)
(* Specification                                                           *)
(***************************************************************************)
Init ==
    /\ agent = "None"
    /\ pc = "idle"
    /\ call = [fn |-> "none"]
    /\ requests = <<>>
    /\ lookups = {}
    /\ outcome = NoOutcome

\* the entry points are called with any document, index and session
AnalyzeStoredCell ==
    /\ pc = "idle"
    /\ \E notebook \in Notebooks :
         \E cell_index \in CellIndexes(notebook) :
            analyze_cell(notebook, cell_index)

Explain ==
    /\ pc = "idle"
    /\ \E ipython \in Sessions : explain_this_cell(ipython)

Experiments ==
    /\ pc = "idle"
    /\ \E ipython \in Sessions : experiments_for_this_cell(ipython)

Teach ==
    /\ pc = "idle"
    /\ \E ipython \in Sessions : teach_me_this_cell(ipython)

Next ==
    \/ AnalyzeStoredCell
    \/ Explain
    \/ Experiments
    \/ Teach
    \/ ExplanationReturnsThenExperiments
    \/ ExplanationReturnsLast
    \/ ExperimentsReturns
    \/ CompletionRaises

Spec == Init /\ [][Next]_vars

(***************************************************************************)
(* Vocabulary of the properties                                            *)
(***************************************************************************)
AllBlank(text) == \A i \in 1..Len(text) : text[i] \in Whitespace

\* s is t without its leading and trailing whitespace
IsTrimOf(s, t) ==
    /\ s # <<>>
    /\ s[1] \notin Whitespace
    /\ s[Len(s)] \notin Whitespace
    /\ \E a \in 0..(Len(t) - Len(s)) :
          /\ SubSeq(t, a + 1, a + Len(s)) = s
          /\ \A i \in 1..a : t[i] \in Whitespace
          /\ \A i \in (a + Len(s) + 1)..Len(t) : t[i] \in Whitespace

Contains(text, part) ==
    \E a \in 0..(Len(text) - Len(part)) :
        SubSeq(text, a + 1, a + Len(part)) = part

LiveFns == {"explain_this_cell", "experiments_for_this_cell", "teach_me_this_cell"}

Stored == call.fn = "analyze_cell"

Live == call.fn \in LiveFns

WellFormed(notebook) ==
    /\ "cells" \in DOMAIN notebook
    /\ \A i \in 1..Len(notebook.cells) :
          {"cell_type", "source"} \subseteq DOMAIN notebook.cells[i]

\* kind and text of the cell at Python index i of a well-formed document
KindAt(notebook, i) == notebook.cells[i + 1].cell_type

TextAt(notebook, i) ==
    LET source == notebook.cells[i + 1].source
    IN  IF source.json = "array" THEN source.v[1] \o source.v[2] ELSE source.v

Ordinal == call.ipython.execution_count

HasOrdinalFrom(n) == Ordinal # <<>> /\ Ordinal[1] >= n

\* the texts the session's history holds at ordinal k: in the dense log
\* when the session has one, in the keyed mapping otherwise
EntriesAt(ipython, k) ==
    IF "input_hist_parsed" \in DOMAIN ipython.history_manager
    THEN {ipython.history_manager.input_hist_parsed[j] :
            j \in {k + 1} \cap DOMAIN ipython.history_manager.input_hist_parsed}
    ELSE IF "In" \in DOMAIN ipython.user_ns
         THEN {ipython.user_ns.In[j] : j \in {k} \cap DOMAIN ipython.user_ns.In}
         ELSE {}

WindowIndexes(request) == {request.window[k].index : k \in 1..Len(request.window)}

Ascending(window) ==
    \A j, k \in 1..Len(window) : j < k => window[j].index < window[k].index

(***************************************************************************)
(* C1: every generation request ever sent, by analyze_cell and by the      *)
(* live helpers alike, has a subject code that is non-empty after          *)
(* trimming whitespace.  Stated for the calls with a cell index >= 0.       *)
(***************************************************************************)
C1_SubjectNeverBlank ==
    (Stored => call.cell_index >= 0) =>
        \A k \in 1..Len(requests) : ~AllBlank(requests[k].cell_content)

(***************************************************************************)
(* C2 as stated: for a target at index >= 0 the context window of the      *)
(* explanation request holds exactly the last min(3, k) code cells of the  *)
(* whole prefix, oldest first.                                             *)
(***************************************************************************)
C2_LastThreeCodeCellsOfPrefix ==
    (Stored /\ requests # <<>> /\ call.cell_index >= 0) =>
        LET before == {i \in 0..(call.cell_index - 1) :
                          KindAt(call.notebook, i) = "code"}
            expected == {i \in before :
                          Cardinality({j \in before : j > i}) < 3}
        IN  /\ WindowIndexes(requests[1]) = expected
            /\ Ascending(requests[1].window)

(***************************************************************************)
(* C2 amended: the context window of the explanation request holds exactly *)
(* the code cells among the last min(3, n) cells before the target (n the  *)
(* number of cells before it, of any kind), oldest first; it is empty when *)
(* the index is zero or negative.                                          *)
(***************************************************************************)
C2_CodeCellsAmongLastThree ==
    (Stored /\ requests # <<>>) =>
        /\ WindowIndexes(requests[1]) =
              {i \in 0..(call.cell_index - 1) :
                  /\ i >= call.cell_index - 3
                  /\ KindAt(call.notebook, i) = "code"}
        /\ Ascending(requests[1].window)
        /\ Len(requests[1].window) = Cardinality(WindowIndexes(requests[1]))

\* a code cell lies before the last three cells of the prefix, a markdown
\* cell lies among them, and the window is not empty
C2_Witness ==
    /\ Stored /\ requests # <<>> /\ call.cell_index >= 4
    /\ \E i \in 0..(call.cell_index - 4) : KindAt(call.notebook, i) = "code"
    /\ \E i \in (call.cell_index - 3)..(call.cell_index - 1) :
          KindAt(call.notebook, i) = "markdown"
    /\ Len(requests[1].window) = 2
    /\ requests[1].window[1].index = call.cell_index - 3

(***************************************************************************)
(* C3: a snippet of the context window is the first 100 characters of the  *)
(* cell's source followed by the truncation marker when the source is      *)
(* longer than 100 characters, and the source verbatim, without marker,    *)
(* when it is 100 characters or shorter.                                   *)
(***************************************************************************)
C3_MarkerOnlyWhenTruncated ==
    (Stored /\ requests # <<>>) =>
        \A k \in 1..Len(requests[1].window) :
            LET source == TextAt(call.notebook, requests[1].window[k].index)
                snippet == requests[1].window[k].snippet
            IN  IF Len(source) > 100
                THEN snippet = SubSeq(source, 1, 100) \o <<".", ".", ".">>
                ELSE snippet = source

(***************************************************************************)
(* C4: for a cell index outside 0 <= cellIndex < cellCount, negative ones  *)
(* included, analyze_cell returns the out-of-range error result and sends  *)
(* no generation request.                                                  *)
(***************************************************************************)
C4_OutsideRangeIsError ==
    (/\ Stored
     /\ WellFormed(call.notebook)
     /\ \/ call.cell_index < 0
        \/ call.cell_index >= Len(call.notebook.cells)) =>
        /\ pc = "done"
        /\ outcome.kind = "error"
        /\ requests = <<>>

(***************************************************************************)
(* C5: teach, at ordinal n >= 2 with a non-blank entry at n-1, sends       *)
(* exactly two requests, the explanation first and the experiments second, *)
(* each about the trimmed text of entry n-1 and each with an empty context *)
(* window.                                                                 *)
(***************************************************************************)
C5_TeachSendsTwoRequests ==
    (/\ call.fn = "teach_me_this_cell"
     /\ pc = "done"
     /\ HasOrdinalFrom(2)
     /\ \E t \in EntriesAt(call.ipython, Ordinal[1] - 1) : ~AllBlank(t)) =>
        /\ Len(requests) = 2
        /\ requests[1].kind = "explanation"
        /\ requests[2].kind = "experiments"
        /\ \A k \in 1..2 :
              /\ \A t \in EntriesAt(call.ipython, Ordinal[1] - 1) :
                    IsTrimOf(requests[k].cell_content, t)
              /\ requests[k].window = <<>>
              /\ ~Contains(requests[k].prompt, <<"Previous cells executed:">>)

(***************************************************************************)
(* C6: at ordinal n >= 2, when the history holds nothing at n-1 (index     *)
(* past the end of the dense log, key absent from the mapping) or holds an *)
(* empty or all-whitespace text, explain, experiments and teach end with a *)
(* warning, raise nothing and send no generation request.                  *)
(***************************************************************************)
C6_MissingOrBlankWarns ==
    (/\ Live
     /\ HasOrdinalFrom(2)
     /\ \A t \in EntriesAt(call.ipython, Ordinal[1] - 1) : AllBlank(t)) =>
        /\ pc = "done"
        /\ outcome.kind = "warning"
        /\ requests = <<>>

\* teach at ordinal 3 in a session whose mapping holds ordinal 1 only
C6_Witness ==
    /\ call.fn = "teach_me_this_cell"
    /\ pc = "done"
    /\ Ordinal = <<3>>
    /\ "input_hist_parsed" \notin DOMAIN call.ipython.history_manager
    /\ "In" \in DOMAIN call.ipython.user_ns
    /\ DOMAIN call.ipython.user_ns.In = {1}
    /\ ~AllBlank(call.ipython.user_ns.In[1])
    /\ outcome.kind = "warning"

(***************************************************************************)
(* C7: when the execution ordinal is undefined, 0 or 1 the helper warns    *)
(* that there is no previous cell, sends no generation request and reads   *)
(* neither the dense log nor the keyed mapping.                            *)
(***************************************************************************)
C7_NoPreviousNeverReadsHistory ==
    (Live /\ ~HasOrdinalFrom(2)) =>
        /\ pc = "done"
        /\ outcome = [kind |-> "warning", msg |-> "no previous cell"]
        /\ requests = <<>>
        /\ lookups = {}

\* ordinal 1 in a session whose dense log has a text at index 0 and 1
C7_Witness ==
    /\ Live
    /\ pc = "done"
    /\ Ordinal = <<1>>
    /\ "input_hist_parsed" \in DOMAIN call.ipython.history_manager
    /\ Len(call.ipython.history_manager.input_hist_parsed) >= 2
    /\ ~AllBlank(call.ipython.history_manager.input_hist_parsed[2])
    /\ outcome.kind = "warning"

(***************************************************************************)
(* C8: for an index in range whose target is a markdown cell, analyze_cell *)
(* returns the informational result and sends no generation request,       *)
(* whatever the other cells are.                                           *)
(***************************************************************************)
C8_MarkdownTargetIsInfo ==
    (/\ Stored
     /\ WellFormed(call.notebook)
     /\ call.cell_index >= 0
     /\ call.cell_index < Len(call.notebook.cells)
     /\ KindAt(call.notebook, call.cell_index) = "markdown") =>
        /\ pc = "done"
        /\ outcome = [kind |-> "info", cell_index |-> call.cell_index]
        /\ requests = <<>>

\* a markdown target with a code cell before it
C8_Witness ==
    /\ Stored
    /\ WellFormed(call.notebook)
    /\ call.cell_index >= 1
    /\ call.cell_index < Len(call.notebook.cells)
    /\ KindAt(call.notebook, call.cell_index) = "markdown"
    /\ KindAt(call.notebook, call.cell_index - 1) = "code"
    /\ outcome.kind = "info"

(***************************************************************************)
(* C9 as stated: when the context window of analyze_cell is not empty,     *)
(* the explanation prompt and the experiments prompt both contain every    *)
(* snippet of the window behind its position marker.                       *)
(***************************************************************************)
MarkedSnippet(entry) ==
    <<"C", "e", "l", "l", " ">> \o Str(entry.index) \o <<":", " ">>
        \o entry.snippet

C9_BothPromptsEmbedContext ==
    (Stored /\ requests # <<>>) =>
        \A r \in 1..Len(requests) :
            \A k \in 1..Len(requests[1].window) :
                Contains(requests[r].prompt, MarkedSnippet(requests[1].window[k]))

(***************************************************************************)
(* C9 amended: when the context window of analyze_cell is not empty, the   *)
(* explanation prompt contains every snippet of the window behind its      *)
(* position marker; the experiments prompt embeds no context: outside the  *)
(* subject code it is the fixed wording of its template.                   *)
(***************************************************************************)
ExperimentsWording ==
    {"<experiment-intro>", "<code-open>", "<code-close>",
     "<experiment-instructions>"}

SubjectInFixedWording(request) ==
    \E a \in 0..(Len(request.prompt) - Len(request.cell_content)) :
        /\ SubSeq(request.prompt, a + 1, a + Len(request.cell_content))
              = request.cell_content
        /\ \A i \in 1..Len(request.prompt) :
              (i <= a \/ i > a + Len(request.cell_content))
                  => request.prompt[i] \in ExperimentsWording

C9_OnlyExplanationEmbedsContext ==
    (Stored /\ requests # <<>> /\ requests[1].window # <<>>) =>
        /\ requests[1].kind = "explanation"
        /\ \A k \in 1..Len(requests[1].window) :
              Contains(requests[1].prompt, MarkedSnippet(requests[1].window[k]))
        /\ Len(requests) = 2 =>
              /\ requests[2].kind = "experiments"
              /\ SubjectInFixedWording(requests[2])

\* both requests sent, three snippets in the window
C9_Witness ==
    /\ Stored
    /\ Len(requests) = 2
    /\ Len(requests[1].window) = 3
    /\ pc = "done"
    /\ outcome.kind = "result"

(***************************************************************************)
(* C10: every failure during analyze_cell or a live helper (no cells key,  *)
(* a cell without cell_type or source, the generation backend failing on   *)
(* the first or the second request) reaches the caller as a returned       *)
(* value, never as a raised error, and no request is sent twice.  Stated   *)
(* for the calls with a cell index >= 0.                                   *)
(***************************************************************************)
C10_FailuresAreReturnedValues ==
    (Stored => call.cell_index >= 0) =>
        /\ outcome.kind # "raised"
        /\ \A j, k \in 1..Len(requests) :
              j # k => requests[j].kind # requests[k].kind

====
